---- MODULE Spec2Model ----
(***************************************************************************)
(* A model of LouiEriksson::ATHYG (src/ATHYG.hpp): the tokenizer Split,    *)
(* the field parser TryParse, the record constructors V1/V2/V3 and the     *)
(* loader Load.                                                            *)
(*                                                                         *)
(* Text is a sequence of one-character strings.  A std::string_view is a   *)
(* record [buf, data, size]: buf is the character buffer it points into    *)
(* (the std::string `line` of Load, which ends with a NUL the model places *)
(* at index Len(buf)+1), data the 1-based index of its first character     *)
(* and size its length.                                                    *)
(***************************************************************************)
EXTENDS Integers, Sequences, FiniteSets, TLC

VARIABLES
    T,          \* Load's template argument: "V1", "V2" or "V3"
    paths,      \* _athyg_paths: what the file system holds at each path
    fixture,    \* which family of file contents the file system draws from
    pc,         \* Load's position: "loop", "lines" or "done"
    cur,        \* index in paths of the path the for loop is at
    csv,        \* the unread rest of the stringstream of the open file
    result,     \* Load's local vector of records
    error,      \* the exception Load ended with, "none" otherwise
    returned,   \* what the caller receives: <<>> until Load returns result
    opened,     \* history: the text ReadAllText gave for each path so far
    log,        \* history: the file-system and stream operations, in order
    splitIn,    \* Split on its own: its arguments _string, _divider, _capacity
    splitOut,   \* <<>> before the call, then <<the vector returned>>
    parseIn,    \* TryParse on its own: the type T, the token and what follows it
    parseOut    \* <<>> before the call, then <<the optional returned>>

vars == <<T, paths, fixture, pc, cur, csv, result, error, returned, opened,
          log, splitIn, splitOut, parseIn, parseOut>>

loadVars == <<T, paths, fixture, pc, cur, csv, result, error, returned,
              opened, log>>

harnessVars == <<splitIn, splitOut, parseIn, parseOut>>

(***************************************************************************)
(* Bounds of the model.                                                    *)
(***************************************************************************)
MaxPaths == 2       \* longest path list given to Load
MaxLines == 4       \* most text lines, headers included, in the files of one load
MaxExtra == 2       \* most tokens beyond the expected count in a generated row
MaxSplitLen == 4    \* longest line given to Split on its own
MaxTokLen == 3      \* longest token given to TryParse on its own

(***************************************************************************)
(* Characters.                                                             *)
(***************************************************************************)
NUL == "NUL"
COMMA == ","
LF == "\n"

Digits == <<"0", "1", "2", "3", "4", "5", "6", "7", "8", "9">>

IsDigit(c) == \E i \in 1..10 : Digits[i] = c

DigitVal(c) == (CHOOSE i \in 1..10 : Digits[i] = c) - 1

\* An isspace() that takes the comma for white space too.
IsSpaceOrComma(c) == c \in {" ", "\t", "\n", "\r", "\f", ","}

\* isspace() in the "C" locale.
IsSpace(c) == c \in {" ", "\t", "\n", "\r", "\f"}

Max(a, b) == IF a >= b THEN a ELSE b

\* The character a C string function sees at index i of buf: the buffer of a
\* std::string is NUL-terminated.
CharAt(buf, i) == IF i >= 1 /\ i <= Len(buf) THEN buf[i] ELSE NUL

(***************************************************************************)
(* std::string_view and std::vector.                                       *)
(***************************************************************************)
StringView(buf, data, size) == [buf |-> buf, data |-> data, size |-> size]

\* The characters a string_view denotes (what std::string(view) copies).
ViewText(v) == SubSeq(v.buf, v.data, v.data + v.size - 1)

npos == -1

\* std::string_view::find(ch, pos): pos is a 0-based offset in the view.
RECURSIVE Find(_, _, _)
Find(_string, ch, pos) ==
    IF pos >= _string.size THEN npos
    ELSE IF _string.buf[_string.data + pos] = ch THEN pos
    ELSE Find(_string, ch, pos + 1)

\* std::string_view::substr(pos, count) and substr(pos).
SubstrN(_string, pos, count) ==
    StringView(_string.buf, _string.data + pos, count)

Substr(_string, pos) ==
    StringView(_string.buf, _string.data + pos, _string.size - pos)

\* std::vector: its elements and its capacity.
EmptyVector == [elems |-> <<>>, capacity |-> 0]

Reserve(v, n) == [v EXCEPT !.capacity = Max(v.capacity, n)]

\* emplace_back: a full vector reallocates to twice its capacity.
EmplaceBack(v, x) ==
    [elems |-> Append(v.elems, x),
     capacity |-> IF Len(v.elems) < v.capacity THEN v.capacity
                  ELSE Max(1, 2 * v.capacity)]

\* A resize that keeps the last n elements instead of the first.
ResizeKeepsTail(v, n) ==
    [v EXCEPT !.elems = SubSeq(v.elems, Len(v.elems) - n + 1, Len(v.elems))]

\* resize(n) to a smaller size drops the tail and keeps the capacity.
Resize(v, n) == [v EXCEPT !.elems = SubSeq(v.elems, 1, n)]

(***************************************************************************)
(* ATHYG::Split.                                                           *)
(***************************************************************************)
\* A Split that collapses delimiters: it keeps no empty token.
RECURSIVE SplitLoopCollapsing(_, _, _, _)
SplitLoopCollapsing(_string, _divider, start, res) ==
    LET end == Find(_string, _divider, start)
    IN  IF end # npos
        THEN SplitLoopCollapsing(_string, _divider, end + 1,
                IF end = start THEN res
                ELSE EmplaceBack(res, SubstrN(_string, start, end - start)))
        ELSE EmplaceBack(res, Substr(_string, start))

RECURSIVE SplitLoop(_, _, _, _)
SplitLoop(_string, _divider, start, res) ==
    LET end == Find(_string, _divider, start)
    IN  IF end # npos
        THEN SplitLoop(_string, _divider, end + 1,
                       EmplaceBack(res, SubstrN(_string, start, end - start)))
        ELSE EmplaceBack(res, Substr(_string, start))

Split(_string, _divider, _capacity) ==
    SplitLoop(_string, _divider, 0, Reserve(EmptyVector, _capacity))

(***************************************************************************)
(* The C conversions TryParse calls.  Each reads the buffer from nptr up   *)
(* to the NUL that ends it, not up to the end of the string_view, and      *)
(* gives [end, value]: end is the index of the first character it did not  *)
(* consume, and end = nptr when no conversion was performed.  The "C"      *)
(* locale is in force (the program never calls setlocale).                 *)
(***************************************************************************)
RECURSIVE SkipSpace(_, _)
SkipSpace(buf, i) ==
    IF IsSpace(CharAt(buf, i)) THEN SkipSpace(buf, i + 1) ELSE i

IsSign(c) == c \in {"+", "-"}

\* The run of decimal digits at index i: where it ends, the number it
\* spells after acc, and its length.
RECURSIVE ScanDigits(_, _, _, _)
ScanDigits(buf, i, acc, n) ==
    IF IsDigit(CharAt(buf, i))
    THEN ScanDigits(buf, i + 1, 10 * acc + DigitVal(CharAt(buf, i)), n + 1)
    ELSE [end |-> i, val |-> acc, n |-> n]

\* strtoul(nptr, &e, 10).  An unsigned long is kept modulo 2^64 by its
\* representative of least magnitude: strtoul negates the value of "-7" in
\* the unsigned type, which the model writes -7.  Digit strings are too short
\* here to reach the clamp to ULONG_MAX.
StrToULDigits(nptr, neg, run) ==
    IF run.n = 0 THEN [end |-> nptr, value |-> 0]
    ELSE [end |-> run.end, value |-> IF neg THEN 0 - run.val ELSE run.val]

StrToULSign(buf, nptr, s) ==
    IF IsSign(CharAt(buf, s))
    THEN StrToULDigits(nptr, CharAt(buf, s) = "-", ScanDigits(buf, s + 1, 0, 0))
    ELSE StrToULDigits(nptr, FALSE, ScanDigits(buf, s, 0, 0))

StrToUL(buf, nptr) == StrToULSign(buf, nptr, SkipSpace(buf, nptr))

Lower(c) ==
    CASE c = "I" -> "i" [] c = "N" -> "n" [] c = "F" -> "f" [] c = "T" -> "t"
      [] c = "Y" -> "y" [] c = "A" -> "a" [] c = "E" -> "e" [] OTHER -> c

\* Does buf hold the word w (given in lower case) at index i, in any case?
Matches(buf, i, w) ==
    \A k \in 1..Len(w) : Lower(CharAt(buf, i + k - 1)) = w[k]

\* A double is [kind, neg, mant, exp]: the finite value mant * 10^exp with
\* sign neg, kept exact (rounding to the nearest double is not modelled),
\* with mant not a multiple of 10 unless it is 0.
RECURSIVE Normal(_, _)
Normal(mant, exp) ==
    IF mant = 0 THEN <<0, 0>>
    ELSE IF mant % 10 = 0 THEN Normal(mant \div 10, exp + 1)
    ELSE <<mant, exp>>

Finite(neg, mant, exp) ==
    LET n == Normal(mant, exp)
    IN  [kind |-> "finite", neg |-> neg, mant |-> n[1], exp |-> n[2]]

Special(kind, neg) == [kind |-> kind, neg |-> neg, mant |-> 0, exp |-> 0]

IsNChar(c) ==
    IsDigit(c) \/ c = "_" \/ c \in {"a", "b", "c", "d", "e", "f", "i", "n", "t",
                                   "x", "y", "z"}

RECURSIVE SkipNChars(_, _)
SkipNChars(buf, i) ==
    IF IsNChar(CharAt(buf, i)) THEN SkipNChars(buf, i + 1) ELSE i

\* strtod(nptr, &e): white space, a sign, then a decimal number with an
\* optional fraction and exponent, or inf / infinity, or nan / nan(n-chars).
\* The hexadecimal form 0x... is not modelled: no input of the model holds
\* an "x" after a "0".  Each stage hands what it has scanned to the next.
NoConversion(nptr) == [end |-> nptr, value |-> Finite(FALSE, 0, 0)]

\* nan, then "(n-chars)" when the parenthesis closes at index close.
StrToDNan(buf, d, neg, close) ==
    [end |-> IF CharAt(buf, d + 3) = "(" /\ CharAt(buf, close) = ")"
             THEN close + 1 ELSE d + 3,
     value |-> Special("nan", neg)]

\* No digit at d: inf, infinity, nan, or nothing to convert.
StrToDWord(buf, nptr, neg, d) ==
    IF Matches(buf, d, <<"i", "n", "f", "i", "n", "i", "t", "y">>)
    THEN [end |-> d + 8, value |-> Special("inf", neg)]
    ELSE IF Matches(buf, d, <<"i", "n", "f">>)
    THEN [end |-> d + 3, value |-> Special("inf", neg)]
    ELSE IF Matches(buf, d, <<"n", "a", "n">>)
    THEN StrToDNan(buf, d, neg, SkipNChars(buf, d + 4))
    ELSE NoConversion(nptr)

\* The mantissa mant ends at mant.end; ex is the run of exponent digits,
\* taken only when it has a digit.
StrToDFinite(neg, mant, eNeg, ex) ==
    IF ex.n = 0
    THEN [end |-> mant.end, value |-> Finite(neg, mant.val, 0 - mant.n)]
    ELSE [end |-> ex.end,
          value |-> Finite(neg, mant.val,
                           (IF eNeg THEN 0 - ex.val ELSE ex.val) - mant.n)]

\* mant is [end, val, n]: where the mantissa ends, its digits as a number
\* and how many of them follow the point; nInt digits precede the point.
StrToDExponent(buf, nptr, neg, d, nInt, mant) ==
    IF nInt + mant.n = 0 THEN StrToDWord(buf, nptr, neg, d)
    ELSE IF Lower(CharAt(buf, mant.end)) # "e"
    THEN StrToDFinite(neg, mant, FALSE, [end |-> mant.end, val |-> 0, n |-> 0])
    ELSE StrToDFinite(neg, mant, CharAt(buf, mant.end + 1) = "-",
            ScanDigits(buf, IF IsSign(CharAt(buf, mant.end + 1))
                            THEN mant.end + 2 ELSE mant.end + 1, 0, 0))

StrToDFraction(buf, nptr, neg, d, int) ==
    IF CharAt(buf, int.end) = "."
    THEN StrToDExponent(buf, nptr, neg, d, int.n,
                        ScanDigits(buf, int.end + 1, int.val, 0))
    ELSE StrToDExponent(buf, nptr, neg, d, int.n,
                        [end |-> int.end, val |-> int.val, n |-> 0])

StrToDSign(buf, nptr, s) ==
    IF IsSign(CharAt(buf, s))
    THEN StrToDFraction(buf, nptr, CharAt(buf, s) = "-", s + 1,
                        ScanDigits(buf, s + 1, 0, 0))
    ELSE StrToDFraction(buf, nptr, FALSE, s, ScanDigits(buf, s, 0, 0))

StrToD(buf, nptr) == StrToDSign(buf, nptr, SkipSpace(buf, nptr))

(***************************************************************************)
(* ATHYG::TryParse<T>.  A std::optional is <<>> when empty and <<value>>   *)
(* when it holds a value.  The null pointer is 0: no string_view has data  *)
(* 0.                                                                      *)
(***************************************************************************)
nullopt == <<>>

Some(r) == <<r>>

nullptr == 0

TrueWords == {<<"t", "r", "u", "e">>, <<"T", "r", "u", "e">>,
              <<"T", "R", "U", "E">>, <<"T">>, <<"1">>}

\* The conversion TryParse<T> makes: the end pointer e and the value r.
Convert(type, _str) ==
    CASE type = "size_t" -> StrToUL(_str.buf, _str.data)
      [] type = "double" -> StrToD(_str.buf, _str.data)
      [] type = "char" ->
            IF _str.size # 0
            THEN [end |-> nullptr, value |-> _str.buf[_str.data]]
            ELSE [end |-> _str.data, value |-> NUL]
      [] type = "bool" ->
            [end |-> nullptr, value |-> ViewText(_str) \in TrueWords]

\* A result that wants the whole token consumed: trailing characters make
\* the field empty.
ResultIfWhole(_str, conv) ==
    IF conv.end # nullptr /\ conv.end # _str.data + _str.size THEN nullopt
    ELSE Some(conv.value)

\* return (e == _str.data()) ? nullopt : optional<T>(r)
Result(_str, conv) ==
    IF conv.end = _str.data THEN nullopt ELSE Some(conv.value)

TryParse(type, _str) == Result(_str, Convert(type, _str))

(***************************************************************************)
(* The record types V1, V2 and V3: each constructor takes the array of     *)
(* string_views of one line (_values[0U] of the code is _values[1] here).  *)
(* A text field is a std::optional<const std::string> built from the       *)
(* string_view: it always holds a value, the characters of the token.      *)
(***************************************************************************)
\* A text field that is empty for an empty token.
TextOrNull(v) == IF v.size = 0 THEN nullopt ELSE Some(ViewText(v))

Text(v) == Some(ViewText(v))

V1(_values) ==
    [id |-> TryParse("size_t", _values[1]),
     tyc |-> Text(_values[2]),
     gaia |-> TryParse("size_t", _values[3]),
     hyg |-> TryParse("size_t", _values[4]),
     hip |-> TryParse("size_t", _values[5]),
     hd |-> TryParse("size_t", _values[6]),
     hr |-> TryParse("size_t", _values[7]),
     gl |-> Text(_values[8]),
     bayer |-> Text(_values[9]),
     flam |-> Text(_values[10]),
     con |-> Text(_values[11]),
     proper |-> Text(_values[12]),
     ra |-> TryParse("double", _values[13]),
     dec |-> TryParse("double", _values[14]),
     pos_src |-> Text(_values[15]),
     dist |-> TryParse("double", _values[16]),
     x0 |-> TryParse("double", _values[17]),
     y0 |-> TryParse("double", _values[18]),
     z0 |-> TryParse("double", _values[19]),
     dist_src |-> Text(_values[20]),
     mag |-> TryParse("double", _values[21]),
     absmag |-> TryParse("double", _values[22]),
     mag_src |-> Text(_values[23])]

V2(_values) ==
    [id |-> TryParse("size_t", _values[1]),
     tyc |-> Text(_values[2]),
     gaia |-> TryParse("size_t", _values[3]),
     hyg |-> TryParse("size_t", _values[4]),
     hip |-> TryParse("size_t", _values[5]),
     hd |-> TryParse("size_t", _values[6]),
     hr |-> TryParse("size_t", _values[7]),
     gl |-> Text(_values[8]),
     bayer |-> Text(_values[9]),
     flam |-> Text(_values[10]),
     con |-> Text(_values[11]),
     proper |-> Text(_values[12]),
     ra |-> TryParse("double", _values[13]),
     dec |-> TryParse("double", _values[14]),
     pos_src |-> Text(_values[15]),
     dist |-> TryParse("double", _values[16]),
     x0 |-> TryParse("double", _values[17]),
     y0 |-> TryParse("double", _values[18]),
     z0 |-> TryParse("double", _values[19]),
     dist_src |-> Text(_values[20]),
     mag |-> TryParse("double", _values[21]),
     absmag |-> TryParse("double", _values[22]),
     mag_src |-> Text(_values[23]),
     rv |-> TryParse("double", _values[24]),
     rv_src |-> Text(_values[25]),
     pm_ra |-> TryParse("double", _values[26]),
     pm_dec |-> TryParse("double", _values[27]),
     pm_src |-> TryParse("double", _values[28]),
     vx |-> TryParse("double", _values[29]),
     vy |-> TryParse("double", _values[30]),
     vz |-> TryParse("double", _values[31]),
     spect |-> TryParse("double", _values[32]),
     spect_src |-> Text(_values[33])]

V3(_values) ==
    [id |-> TryParse("size_t", _values[1]),
     tyc |-> Text(_values[2]),
     gaia |-> TryParse("size_t", _values[3]),
     hyg |-> TryParse("size_t", _values[4]),
     hip |-> TryParse("size_t", _values[5]),
     hd |-> TryParse("size_t", _values[6]),
     hr |-> TryParse("size_t", _values[7]),
     gl |-> Text(_values[8]),
     bayer |-> Text(_values[9]),
     flam |-> Text(_values[10]),
     con |-> Text(_values[11]),
     proper |-> Text(_values[12]),
     ra |-> TryParse("double", _values[13]),
     dec |-> TryParse("double", _values[14]),
     pos_src |-> Text(_values[15]),
     dist |-> TryParse("double", _values[16]),
     x0 |-> TryParse("double", _values[17]),
     y0 |-> TryParse("double", _values[18]),
     z0 |-> TryParse("double", _values[19]),
     dist_src |-> Text(_values[20]),
     mag |-> TryParse("double", _values[21]),
     absmag |-> TryParse("double", _values[22]),
     ci |-> TryParse("double", _values[23]),
     mag_src |-> Text(_values[24]),
     rv |-> TryParse("double", _values[25]),
     rv_src |-> Text(_values[26]),
     pm_ra |-> TryParse("double", _values[27]),
     pm_dec |-> TryParse("double", _values[28]),
     pm_src |-> TryParse("double", _values[29]),
     vx |-> TryParse("double", _values[30]),
     vy |-> TryParse("double", _values[31]),
     vz |-> TryParse("double", _values[32]),
     spect |-> TryParse("double", _values[33]),
     spect_src |-> Text(_values[34])]

s_ElementCount(type) ==
    CASE type = "V1" -> 23 [] type = "V2" -> 33 [] type = "V3" -> 34

Construct(type, _values) ==
    CASE type = "V1" -> V1(_values)
      [] type = "V2" -> V2(_values)
      [] type = "V3" -> V3(_values)

\* ATHYG::ToArray<_Tp, _Nm>: the elements of a vector of exactly _Nm
\* elements; any other size throws.
ToArray(_vector, _Nm) ==
    IF Len(_vector.elems) # _Nm THEN "Vector -> Array size mismatch!"
    ELSE [i \in 1.._Nm |-> _vector.elems[i]]

(***************************************************************************)
(* std::getline(csv, line) on the unread text of a stream: it fails at the *)
(* end of the text, and otherwise takes the characters up to the next line *)
(* feed and drops the line feed.                                           *)
(***************************************************************************)
\* The index of the first line feed of a text, 0 when it has none.
FirstLineFeed(text) ==
    LET at == {i \in 1..Len(text) : text[i] = LF}
    IN  IF at = {} THEN 0 ELSE CHOOSE i \in at : \A j \in at : i <= j

TakeLine(text, i) ==
    IF i = 0 THEN [ok |-> TRUE, line |-> text, rest |-> <<>>]
    ELSE [ok |-> TRUE, line |-> SubSeq(text, 1, i - 1),
          rest |-> SubSeq(text, i + 1, Len(text))]

\* A getline that passes over empty lines.
RECURSIVE GetLineSkipsBlank(_)
GetLineSkipsBlank(text) ==
    IF text = <<>> THEN [ok |-> FALSE, line |-> <<>>, rest |-> <<>>]
    ELSE IF text[1] = LF THEN GetLineSkipsBlank(Tail(text))
    ELSE TakeLine(text, FirstLineFeed(text))

GetLine(text) ==
    IF text = <<>> THEN [ok |-> FALSE, line |-> <<>>, rest |-> <<>>]
    ELSE TakeLine(text, FirstLineFeed(text))

(***************************************************************************)
(* The file system.  A path is one of three kinds: nothing exists there    *)
(* ("missing"), something exists that cannot be opened for reading         *)
(* ("locked"), or a readable file ("file").  The file system does not      *)
(* change during a load.                                                   *)
(***************************************************************************)
PathKinds == {"missing", "locked", "file"}

exists(path) == path # "missing"

is_open(path) == path = "file"

ErrInvalidFilePath == "Invalid file path"
ErrPathNotValid == "Path is not valid."
ErrElements == "Number of elements not consistent with ATHYG version!"

\* ATHYG::ReadAllText: the text of the file, nothing at all when the file
\* exists but does not open, and an exception when it does not exist.
ReadAllText(_path, onDisk) ==
    IF exists(_path)
    THEN [threw |-> "none", text |-> IF is_open(_path) THEN onDisk ELSE <<>>]
    ELSE [threw |-> ErrInvalidFilePath, text |-> <<>>]

(***************************************************************************)
(* The body of Load's while loop for one line: split, drop the elements    *)
(* beyond the count, then build the record or throw.                       *)
(***************************************************************************)
Elements(type, line) ==
    LET elements == Split(StringView(line, 1, Len(line)), COMMA,
                          s_ElementCount(type))
    IN  IF Len(elements.elems) > s_ElementCount(type)
        THEN Resize(elements, s_ElementCount(type))
        ELSE elements

CountMatches(type, line) ==
    Len(Elements(type, line).elems) = s_ElementCount(type)

Deserialise(type, line) ==
    Construct(type, ToArray(Elements(type, line), s_ElementCount(type)))

(***************************************************************************)
(* The inputs: the texts a file may hold.  Under the fixture "files" a     *)
(* file is a header and a few rows out of three; under "rows" it is a      *)
(* header and one row in which one token, and the number of tokens, vary,  *)
(* or any first line and a few lines each of which is a row or empty.      *)
(***************************************************************************)
Types == {"V1", "V2", "V3"}

RECURSIVE Dec(_)
Dec(n) == IF n < 10 THEN <<Digits[n + 1]>>
          ELSE Append(Dec(n \div 10), Digits[(n % 10) + 1])

RECURSIVE Join(_, _)
Join(pieces, sep) ==
    IF Len(pieces) = 0 THEN <<>>
    ELSE IF Len(pieces) = 1 THEN pieces[1]
    ELSE pieces[1] \o <<sep>> \o Join(Tail(pieces), sep)

SeqsUpTo(S, n) == UNION {[1..k -> S] : k \in 0..n}

\* A row of exactly the expected tokens, a second one with other tokens and
\* one token too many, and a row one token short.
RowA(type) == Join([i \in 1..s_ElementCount(type) |-> Dec(i)], COMMA)

RowB(type) == Join([i \in 1..(s_ElementCount(type) + 1) |-> Dec(i + 40)], COMMA)

RowShort(type) == Join([i \in 1..(s_ElementCount(type) - 1) |-> Dec(i)], COMMA)

Rows(type) == {RowA(type), RowB(type), RowShort(type)}

Header == <<"i", "d">>

\* First lines that are not a header: a valid row, a row one token short,
\* an empty line.
Headers(type) == {Header, RowA(type), RowShort(type), <<>>}

FileText(lines, terminated) ==
    Join(lines, LF) \o (IF terminated THEN <<LF>> ELSE <<>>)

Files(type, budget) ==
    {<<>>} \cup
    {FileText(<<Header>> \o rows, nl) :
        rows \in SeqsUpTo(Rows(type), budget - 1), nl \in BOOLEAN}

\* The tokens put at the varied position of a row.
RowTokens ==
    {<<>>, <<"4", "2">>, <<"a", "b", "c">>, <<"4", "2", "x", "y", "z">>,
     <<" ", "7">>, <<"-">>, <<"-", "3">>, <<".", "5">>, <<"4", ".", "2">>,
     <<"n", "a", "n">>}

ExtraTokens == {<<"9">>, <<"x", "y">>}

\* The row with tok at position p and n tokens more (or, n = -1, one token
\* fewer) than the expected count, the added ones being extra.
RowWith(type, p, tok, n, extra) ==
    Join([i \in 1..(s_ElementCount(type) + n) |->
            IF i = p THEN tok
            ELSE IF i > s_ElementCount(type) THEN extra ELSE Dec(i)], COMMA)

RowFiles(type) ==
    {FileText(<<Header, RowWith(type, p, tok, n, extra)>>, nl) :
        p \in 1..s_ElementCount(type), tok \in RowTokens,
        n \in (0 - 1)..MaxExtra, extra \in ExtraTokens, nl \in BOOLEAN}

BlankFiles(type) ==
    {FileText(<<h>> \o lines, nl) :
        h \in Headers(type),
        lines \in SeqsUpTo({RowA(type), <<>>}, MaxLines - 1), nl \in BOOLEAN}

\* The number of lines std::getline finds in a text.
RECURSIVE NumLines(_)
NumLines(text) ==
    LET g == GetLine(text)
    IN  IF g.ok THEN 1 + NumLines(g.rest) ELSE 0

RECURSIVE LinesIn(_)
LinesIn(texts) ==
    IF texts = <<>> THEN 0 ELSE NumLines(Head(texts)) + LinesIn(Tail(texts))

\* What the disk may hold at the next readable path.
OnDisk ==
    IF fixture = "rows" THEN RowFiles(T) \cup BlankFiles(T)
    ELSE Files(T, MaxLines - LinesIn(opened))

(***************************************************************************)
(* ATHYG::Load<T>(_athyg_paths), one action per way through the for loop.  *)
(***************************************************************************)
InitLoad(fx, maxPaths) ==
    /\ T \in Types
    /\ paths \in SeqsUpTo(PathKinds, maxPaths)
    /\ fixture = fx
    /\ pc = "loop"
    /\ cur = 1
    /\ csv = <<>>
    /\ result = <<>>
    /\ error = "none"
    /\ returned = <<>>
    /\ opened = <<>>
    /\ log = <<>>

HarnessIdle ==
    /\ splitIn = "idle"
    /\ splitOut = <<>>
    /\ parseIn = "idle"
    /\ parseOut = <<>>

Init == InitLoad("files", MaxPaths) /\ HarnessIdle

\* A Load that does not skip the first line of the file.
OpenFileKeepsHeader ==
    /\ pc = "loop"
    /\ cur <= Len(paths)
    /\ exists(paths[cur])
    /\ \E onDisk \in (IF is_open(paths[cur]) THEN OnDisk ELSE {<<>>}) :
          LET read == ReadAllText(paths[cur], onDisk)
          IN  /\ read.threw = "none"
              /\ csv' = read.text
              /\ opened' = Append(opened, read.text)
    /\ pc' = "lines"
    /\ log' = log \o <<<<"exists", cur>>, <<"read", cur>>>>
    /\ UNCHANGED <<T, paths, fixture, cur, result, error, returned>>
    /\ UNCHANGED harnessVars

\* The path exists: read the whole file into csv and skip its first line.
OpenFile ==
    /\ pc = "loop"
    /\ cur <= Len(paths)
    /\ exists(paths[cur])
    /\ \E onDisk \in (IF is_open(paths[cur]) THEN OnDisk ELSE {<<>>}) :
          LET read == ReadAllText(paths[cur], onDisk)
              header == GetLine(read.text)
          IN  /\ read.threw = "none"
              /\ csv' = header.rest
              /\ opened' = Append(opened, read.text)
    /\ pc' = "lines"
    /\ log' = log \o <<<<"exists", cur>>, <<"read", cur>>, <<"getline", cur>>>>
    /\ UNCHANGED <<T, paths, fixture, cur, result, error, returned>>
    /\ UNCHANGED harnessVars

\* A Load that passes over a path that does not exist.
InvalidPathSkipsPath ==
    /\ pc = "loop"
    /\ cur <= Len(paths)
    /\ ~exists(paths[cur])
    /\ cur' = cur + 1
    /\ log' = Append(log, <<"exists", cur>>)
    /\ UNCHANGED <<T, paths, fixture, pc, csv, result, error, returned, opened>>
    /\ UNCHANGED harnessVars

\* The path does not exist: Load throws.
InvalidPath ==
    /\ pc = "loop"
    /\ cur <= Len(paths)
    /\ ~exists(paths[cur])
    /\ error' = ErrPathNotValid
    /\ pc' = "done"
    /\ log' = Append(log, <<"exists", cur>>)
    /\ UNCHANGED <<T, paths, fixture, cur, csv, result, returned, opened>>
    /\ UNCHANGED harnessVars

\* A Load that puts each new record at the front of result.
ReadLinePrepends ==
    /\ pc = "lines"
    /\ LET got == GetLine(csv)
       IN  /\ got.ok
           /\ CountMatches(T, got.line)
           /\ result' = <<Deserialise(T, got.line)>> \o result
           /\ csv' = got.rest
    /\ log' = log \o <<<<"getline", cur>>, <<"split", cur>>>>
    /\ UNCHANGED <<T, paths, fixture, pc, cur, error, returned, opened>>
    /\ UNCHANGED harnessVars

\* A line with enough elements: its record is appended to result.
ReadLine ==
    /\ pc = "lines"
    /\ LET got == GetLine(csv)
       IN  /\ got.ok
           /\ CountMatches(T, got.line)
           /\ result' = Append(result, Deserialise(T, got.line))
           /\ csv' = got.rest
    /\ log' = log \o <<<<"getline", cur>>, <<"split", cur>>>>
    /\ UNCHANGED <<T, paths, fixture, pc, cur, error, returned, opened>>
    /\ UNCHANGED harnessVars

\* A Load that skips a line with too few elements and carries on.
ArityMismatchSkipsLine ==
    /\ pc = "lines"
    /\ LET got == GetLine(csv)
       IN  /\ got.ok
           /\ ~CountMatches(T, got.line)
           /\ csv' = got.rest
    /\ log' = log \o <<<<"getline", cur>>, <<"split", cur>>>>
    /\ UNCHANGED <<T, paths, fixture, pc, cur, result, error, returned, opened>>
    /\ UNCHANGED harnessVars

\* A Load that notes the error of a line with too few elements and goes on
\* reading.
ArityMismatchReadsOn ==
    /\ pc = "lines"
    /\ LET got == GetLine(csv)
       IN  /\ got.ok
           /\ ~CountMatches(T, got.line)
           /\ csv' = got.rest
    /\ error' = ErrElements
    /\ log' = log \o <<<<"getline", cur>>, <<"split", cur>>>>
    /\ UNCHANGED <<T, paths, fixture, pc, cur, result, returned, opened>>
    /\ UNCHANGED harnessVars

\* A line with too few elements: Load throws.
ArityMismatch ==
    /\ pc = "lines"
    /\ LET got == GetLine(csv)
       IN  /\ got.ok
           /\ ~CountMatches(T, got.line)
           /\ csv' = got.rest
    /\ error' = ErrElements
    /\ pc' = "done"
    /\ log' = log \o <<<<"getline", cur>>, <<"split", cur>>>>
    /\ UNCHANGED <<T, paths, fixture, cur, result, returned, opened>>
    /\ UNCHANGED harnessVars

\* std::getline fails: the file is finished, on to the next path.
EndOfFile ==
    /\ pc = "lines"
    /\ ~GetLine(csv).ok
    /\ pc' = "loop"
    /\ cur' = cur + 1
    /\ log' = Append(log, <<"getline", cur>>)
    /\ UNCHANGED <<T, paths, fixture, csv, result, error, returned, opened>>
    /\ UNCHANGED harnessVars

\* Every path is done: Load returns result.
Return ==
    /\ pc = "loop"
    /\ cur > Len(paths)
    /\ returned' = result
    /\ pc' = "done"
    /\ UNCHANGED <<T, paths, fixture, cur, csv, result, error, opened, log>>
    /\ UNCHANGED harnessVars

Next ==
    \/ OpenFile
    \/ InvalidPath
    \/ ReadLine
    \/ ArityMismatch
    \/ EndOfFile
    \/ Return

Spec == Init /\ [][Next]_vars

\* Load on one path whose file, when readable, holds a header and one row.
InitRow == InitLoad("rows", 1) /\ HarnessIdle

SpecRow == InitRow /\ [][Next]_vars

(***************************************************************************)
(* Split and TryParse on their own: the call is made once on arguments     *)
(* drawn from bounded sets, while Load stays idle.                         *)
(***************************************************************************)
LoadIdle ==
    /\ T = "V1"
    /\ paths = <<>>
    /\ fixture = "none"
    /\ pc = "done"
    /\ cur = 1
    /\ csv = <<>>
    /\ result = <<>>
    /\ error = "none"
    /\ returned = <<>>
    /\ opened = <<>>
    /\ log = <<>>

SplitAlphabet == {",", ";", "a"}

SplitCapacities == {0, 1, 23}

InitSplit ==
    /\ LoadIdle
    /\ splitIn \in [string : SeqsUpTo(SplitAlphabet, MaxSplitLen),
                    divider : SplitAlphabet,
                    capacity : SplitCapacities]
    /\ splitOut = <<>>
    /\ parseIn = "idle"
    /\ parseOut = <<>>

CallSplit ==
    /\ splitOut = <<>>
    /\ splitOut' = <<Split(StringView(splitIn.string, 1, Len(splitIn.string)),
                           splitIn.divider, splitIn.capacity)>>
    /\ UNCHANGED <<loadVars, splitIn, parseIn, parseOut>>

SpecSplit == InitSplit /\ [][CallSplit]_vars

ParseTypes == {"size_t", "double", "char", "bool"}

ParseAlphabet == {"4", "2", "-", " ", ".", "x", "e"}

ParseExamples ==
    {<<"4", "2", "x", "y", "z">>, <<"+", "4", "2">>, <<"n", "a", "n">>,
     <<"i", "n", "f">>, <<"t", "r", "u", "e">>, <<"T">>, <<"1">>,
     <<"\t", "4", "2">>, <<"4", "2", "e", "-", "2">>}

\* What follows a token in its line: the end of the line, or a comma and
\* the rest of the line.
Followers == {<<>>, <<",">>, <<",", "7">>}

InitParse ==
    /\ LoadIdle
    /\ splitIn = "idle"
    /\ splitOut = <<>>
    /\ parseIn \in [type : ParseTypes,
                    token : SeqsUpTo(ParseAlphabet, MaxTokLen) \cup ParseExamples,
                    after : Followers]
    /\ parseOut = <<>>

ParseView == StringView(parseIn.token \o parseIn.after, 1, Len(parseIn.token))

CallTryParse ==
    /\ parseOut = <<>>
    /\ parseOut' = <<TryParse(parseIn.type, ParseView)>>
    /\ UNCHANGED <<loadVars, splitIn, splitOut, parseIn>>

SpecParse == InitParse /\ [][CallTryParse]_vars

(***************************************************************************)
(* Vocabulary of the properties, defined on texts without the operators    *)
(* of the model: the pieces a separator cuts a text into, by the           *)
(* positions of the separator; the lines of a file; the tokens of a line.  *)
(***************************************************************************)
SeparatorsIn(text, sep) == {i \in 1..Len(text) : text[i] = sep}

\* The position of the k-th separator of a text; 0 for k = 0 and one past
\* the end of the text when it has fewer than k separators.
NthSeparator(text, sep, k) ==
    LET at == SeparatorsIn(text, sep)
    IN  IF k = 0 THEN 0
        ELSE IF k > Cardinality(at) THEN Len(text) + 1
        ELSE CHOOSE i \in at : Cardinality({j \in at : j < i}) = k - 1

Pieces(text, sep) ==
    [k \in 1..(Cardinality(SeparatorsIn(text, sep)) + 1) |->
        SubSeq(text, NthSeparator(text, sep, k - 1) + 1,
               NthSeparator(text, sep, k) - 1)]

Occurrences(text, c) == Cardinality({i \in 1..Len(text) : text[i] = c})

\* The lines of a file: a line feed ends a line, and text after the last
\* line feed is a line too.
LinesOf(text) ==
    LET p == Pieces(text, LF)
    IN  IF p[Len(p)] = <<>> THEN SubSeq(p, 1, Len(p) - 1) ELSE p

\* The data lines of a file: every line after the first.
DataLines(text) ==
    IF LinesOf(text) = <<>> THEN <<>> ELSE Tail(LinesOf(text))

TokensOf(line) == Pieces(line, COMMA)

IsShort(type, line) == Len(TokensOf(line)) < s_ElementCount(type)

\* The data lines of the files opened so far, in file-then-line order.
RECURSIVE Concat(_)
Concat(seqs) == IF seqs = <<>> THEN <<>> ELSE Head(seqs) \o Concat(Tail(seqs))

OpenedDataLines == Concat([i \in 1..Len(opened) |-> DataLines(opened[i])])

SomeShortLine ==
    \E k \in 1..Len(OpenedDataLines) : IsShort(T, OpenedDataLines[k])

AllReadable == \A i \in 1..Len(paths) : paths[i] = "file"

(***************************************************************************)
(* C9.  Split returns one token more than the line holds delimiters, no    *)
(* token holds the delimiter, and the tokens joined by the delimiter give  *)
(* the line back, whatever the capacity hint: adjacent delimiters give an  *)
(* empty token, a delimiter at the end a trailing empty token, the empty   *)
(* line one empty token.                                                   *)
(***************************************************************************)
SplitTokens ==
    [i \in 1..Len(splitOut[1].elems) |-> ViewText(splitOut[1].elems[i])]

C9_SplitPartitionsLine ==
    splitOut # <<>> =>
        /\ Len(SplitTokens) = Occurrences(splitIn.string, splitIn.divider) + 1
        /\ \A i \in 1..Len(SplitTokens) :
              Occurrences(SplitTokens[i], splitIn.divider) = 0
        /\ Join(SplitTokens, splitIn.divider) = splitIn.string

\* Two adjacent delimiters and one at the end, with a capacity hint given.
C9_Witness ==
    /\ splitOut # <<>>
    /\ splitIn.string = <<"a", ",", ",", ",">>
    /\ splitIn.divider = ","
    /\ splitIn.capacity = 23
    /\ SplitTokens = <<<<"a">>, <<>>, <<>>, <<>>>>

(***************************************************************************)
(* C7.  Numeric columns (TryParse<size_t>, TryParse<double>).              *)
(***************************************************************************)
NumericTypes == {"size_t", "double"}

FortyTwoXyz == <<"4", "2", "x", "y", "z">>

\* The value 42 in the type of the column.
FortyTwo(type) == IF type = "size_t" THEN 42 ELSE Finite(FALSE, 42, 0)

RECURSIVE DropSpace(_)
DropSpace(token) ==
    IF token # <<>> /\ IsSpace(token[1]) THEN DropSpace(Tail(token)) ELSE token

DropSign(token) ==
    IF token # <<>> /\ IsSign(token[1]) THEN Tail(token) ELSE token

StartsWith(token, word) ==
    /\ Len(token) >= Len(word)
    /\ \A k \in 1..Len(word) : Lower(token[k]) = word[k]

\* The token starts, after white space and an optional sign, with what the
\* column's conversion takes for the start of a number.
StartsNumber(type, token) ==
    LET rest == DropSign(DropSpace(token))
    IN  \/ rest # <<>> /\ IsDigit(rest[1])
        \/ /\ type = "double"
           /\ \/ Len(rest) >= 2 /\ rest[1] = "." /\ IsDigit(rest[2])
              \/ StartsWith(rest, <<"i", "n", "f">>)
              \/ StartsWith(rest, <<"n", "a", "n">>)

\* C7 as claimed: for a numeric column an empty token gives an absent field,
\* a token whose first character is neither a digit nor a sign gives an
\* absent field, and "42xyz" gives a present field holding 42.
C7_AsClaimed ==
    (parseOut # <<>> /\ parseIn.type \in NumericTypes) =>
        /\ parseIn.token = <<>> => parseOut[1] = nullopt
        /\ (/\ parseIn.token # <<>>
            /\ ~IsDigit(parseIn.token[1])
            /\ ~IsSign(parseIn.token[1])) => parseOut[1] = nullopt
        /\ parseIn.token = FortyTwoXyz => parseOut[1] = Some(FortyTwo(parseIn.type))

\* C7 as amended: for a numeric column an empty token gives an absent field,
\* a token that does not start, after any leading white space and an
\* optional sign, with a digit (or, in a decimal column, with a "." and a
\* digit, with "inf" or with "nan") gives an absent field, and "42xyz" gives
\* a present field holding 42.
C7_NumericPrefixDecides ==
    (parseOut # <<>> /\ parseIn.type \in NumericTypes) =>
        /\ parseIn.token = <<>> => parseOut[1] = nullopt
        /\ ~StartsNumber(parseIn.type, parseIn.token) => parseOut[1] = nullopt
        /\ parseIn.token = FortyTwoXyz => parseOut[1] = Some(FortyTwo(parseIn.type))

\* "42xyz" in a decimal column, followed in its line by another token.
C7_Witness ==
    /\ parseIn.type = "double"
    /\ parseIn.token = FortyTwoXyz
    /\ parseIn.after = <<",", "7">>
    /\ parseOut = <<Some(Finite(FALSE, 42, 0))>>

(***************************************************************************)
(* C1.  When every path of the list is a readable file and a data line of  *)
(* one of them has fewer tokens than T expects, Load ends with the         *)
(* "number of elements" error and the caller receives no record, also      *)
(* when earlier lines and files had already put records in result.         *)
(***************************************************************************)
C1_ShortLineAbortsLoad ==
    (pc = "done" /\ AllReadable /\ SomeShortLine) =>
        /\ error = ErrElements
        /\ returned = <<>>

\* The short line is the last data line of the second file, and the first
\* file had put a record in result when Load threw.
C1_Witness ==
    /\ pc = "done"
    /\ paths = <<"file", "file">>
    /\ Len(opened) = 2
    /\ Len(DataLines(opened[1])) >= 1
    /\ ~IsShort(T, DataLines(opened[1])[1])
    /\ Len(DataLines(opened[2])) >= 1
    /\ IsShort(T, DataLines(opened[2])[Len(DataLines(opened[2]))])
    /\ Len(result) > 0
    /\ error = ErrElements
    /\ returned = <<>>

(***************************************************************************)
(* C2.  A path list that holds a nonexistent path.                         *)
(***************************************************************************)
HasMissing == \E i \in 1..Len(paths) : paths[i] = "missing"

FirstMissing ==
    CHOOSE i \in 1..Len(paths) :
        paths[i] = "missing" /\ \A j \in 1..(i - 1) : paths[j] # "missing"

\* C2 as claimed: whenever the list holds a nonexistent path, Load ends with
\* the invalid-path error and the caller receives no record, whatever the
\* other files hold.
C2_AsClaimed ==
    (pc = "done" /\ HasMissing) =>
        /\ error = ErrPathNotValid
        /\ returned = <<>>

\* C2 as amended: whenever the list holds a nonexistent path, the caller
\* receives no record and Load ends with an error, which is the invalid-path
\* error unless a file earlier in the list than the first nonexistent path
\* has a data line with too few tokens, and then is the number-of-elements
\* error.
C2_MissingPathAbortsLoad ==
    (pc = "done" /\ HasMissing) =>
        /\ returned = <<>>
        /\ Len(opened) < FirstMissing
        /\ error = IF SomeShortLine THEN ErrElements ELSE ErrPathNotValid

\* The nonexistent path is the last of the list and the file before it had
\* put records in result.
C2_Witness ==
    /\ pc = "done"
    /\ paths = <<"file", "missing">>
    /\ Len(result) > 0
    /\ error = ErrPathNotValid
    /\ returned = <<>>

(***************************************************************************)
(* C3.  A path that exists and cannot be opened for reading makes Load     *)
(* end with an error and hand the caller no record; the error is the       *)
(* invalid-path error when nothing else in the list is at fault.           *)
(***************************************************************************)
HasLocked == \E i \in 1..Len(paths) : paths[i] = "locked"

C3_UnreadablePathAbortsLoad ==
    (pc = "done" /\ HasLocked) =>
        /\ error # "none"
        /\ returned = <<>>
        /\ (~HasMissing /\ ~SomeShortLine) => error = ErrPathNotValid

(***************************************************************************)
(* C4.  When every path of the list is a readable file and no data line    *)
(* has too few tokens, Load returns one record per data line, in file      *)
(* order and within a file in line order: record k is the record of the    *)
(* k-th data line in that order.                                           *)
(***************************************************************************)
RecordsOf(type, lines) ==
    [k \in 1..Len(lines) |-> Deserialise(type, lines[k])]

C4_OneRecordPerDataLineInOrder ==
    (pc = "done" /\ AllReadable /\ ~SomeShortLine) =>
        /\ error = "none"
        /\ Len(opened) = Len(paths)
        /\ Len(returned) = Len(OpenedDataLines)
        /\ returned = RecordsOf(T, OpenedDataLines)

\* Two files with data lines, the last of them not terminated, and records
\* that differ from each other.
C4_Witness ==
    /\ pc = "done"
    /\ error = "none"
    /\ paths = <<"file", "file">>
    /\ Len(DataLines(opened[1])) >= 1
    /\ Len(DataLines(opened[2])) >= 1
    /\ opened[2][Len(opened[2])] # LF
    /\ Len(returned) = Len(OpenedDataLines)
    /\ returned[1] # returned[Len(returned)]

(***************************************************************************)
(* C5.  A data line with more tokens than T expects raises no error: its   *)
(* record is the record of the line made of its first s_ElementCount       *)
(* tokens alone, so the dropped tokens influence no field.                 *)
(***************************************************************************)
Truncated(type, line) ==
    Join(SubSeq(TokensOf(line), 1, s_ElementCount(type)), COMMA)

IsLong(type, line) == Len(TokensOf(line)) > s_ElementCount(type)

\* The file of the one path is a header and a single row.
OneRowFile ==
    /\ paths = <<"file">>
    /\ Len(opened) = 1
    /\ Len(DataLines(opened[1])) = 1

TheRow == DataLines(opened[1])[1]

C5_ExtraTokensAreDropped ==
    (pc = "done" /\ OneRowFile /\ IsLong(T, TheRow)) =>
        /\ error = "none"
        /\ returned = <<Deserialise(T, Truncated(T, TheRow))>>

\* Two tokens too many, neither of them a number, behind a last kept token.
C5_Witness ==
    /\ pc = "done"
    /\ OneRowFile
    /\ Len(TokensOf(TheRow)) = s_ElementCount(T) + 2
    /\ TokensOf(TheRow)[s_ElementCount(T) + 1] = <<"x", "y">>
    /\ error = "none"
    /\ Len(returned) = 1

(***************************************************************************)
(* C6.  Load skips the first line of a file and nothing else, whatever     *)
(* that line holds: what Load does with a file is decided by the lines     *)
(* after the first alone.  A first line that is a valid row gives no       *)
(* record, a first line with a wrong number of tokens gives no error, a    *)
(* file of one line gives no record and no error, and the second line is   *)
(* treated as data.                                                        *)
(***************************************************************************)
C6_OnlyTheFirstLineIsSkipped ==
    (pc = "done" /\ paths = <<"file">>) =>
        LET data == DataLines(opened[1])
        IN  IF \E k \in 1..Len(data) : IsShort(T, data[k])
            THEN error = ErrElements /\ returned = <<>>
            ELSE error = "none" /\ returned = RecordsOf(T, data)

\* The first line is a valid row and the second line is the only data line.
C6_Witness ==
    /\ pc = "done"
    /\ paths = <<"file">>
    /\ LinesOf(opened[1]) = <<RowA(T), RowA(T)>>
    /\ error = "none"
    /\ Len(returned) = 1

(***************************************************************************)
(* C8.  In every record Load returns, each text field holds a value, and   *)
(* the value is the token at the field's column, character for character,  *)
(* also when the token is empty.                                           *)
(***************************************************************************)
\* The text columns of each version: <<position in the line, field>>.
TextColumns(type) ==
    {<<2, "tyc">>, <<8, "gl">>, <<9, "bayer">>, <<10, "flam">>, <<11, "con">>,
     <<12, "proper">>, <<15, "pos_src">>, <<20, "dist_src">>} \cup
    (CASE type = "V1" -> {<<23, "mag_src">>}
       [] type = "V2" -> {<<23, "mag_src">>, <<25, "rv_src">>, <<33, "spect_src">>}
       [] type = "V3" -> {<<24, "mag_src">>, <<26, "rv_src">>, <<34, "spect_src">>})

C8_TextFieldsHoldTheToken ==
    (pc = "done" /\ returned # <<>>) =>
        \A k \in 1..Len(returned) : \A col \in TextColumns(T) :
            returned[k][col[2]] = Some(TokensOf(OpenedDataLines[k])[col[1]])

\* A row whose second token is empty: the field tyc holds the empty string.
C8_Witness ==
    /\ pc = "done"
    /\ OneRowFile
    /\ Len(returned) = 1
    /\ TokensOf(TheRow)[2] = <<>>
    /\ returned[1].tyc = Some(<<>>)
    /\ returned[1].tyc # nullopt

(***************************************************************************)
(* C10.  Load takes the paths one at a time in list order and the lines in *)
(* line order, and stops at the first fault in that order: the error is    *)
(* the one of the earliest missing path or short line, every path and data *)
(* line before it was sound, and nothing after it is checked for           *)
(* existence, read or split.                                               *)
(***************************************************************************)
NoShortLineIn(text) ==
    \A k \in 1..Len(DataLines(text)) : ~IsShort(T, DataLines(text)[k])

\* The index of the first short data line of a text that has one.
FirstShort(text) ==
    CHOOSE k \in 1..Len(DataLines(text)) :
        /\ IsShort(T, DataLines(text)[k])
        /\ \A j \in 1..(k - 1) : ~IsShort(T, DataLines(text)[j])

V1Columns ==
    <<<<"id", "size_t">>, <<"tyc", "text">>, <<"gaia", "size_t">>,
      <<"hyg", "size_t">>, <<"hip", "size_t">>, <<"hd", "size_t">>,
      <<"hr", "size_t">>, <<"gl", "text">>, <<"bayer", "text">>,
      <<"flam", "text">>, <<"con", "text">>, <<"proper", "text">>,
      <<"ra", "double">>, <<"dec", "double">>, <<"pos_src", "text">>,
      <<"dist", "double">>, <<"x0", "double">>, <<"y0", "double">>,
      <<"z0", "double">>, <<"dist_src", "text">>, <<"mag", "double">>,
      <<"absmag", "double">>, <<"mag_src", "text">>>>

AddedColumns ==
    <<<<"rv", "double">>, <<"rv_src", "text">>, <<"pm_ra", "double">>,
      <<"pm_dec", "double">>, <<"pm_src", "double">>, <<"vx", "double">>,
      <<"vy", "double">>, <<"vz", "double">>, <<"spect", "double">>,
      <<"spect_src", "text">>>>

Columns(type) ==
    CASE type = "V1" -> V1Columns
      [] type = "V2" -> V1Columns \o AddedColumns
      [] type = "V3" -> SubSeq(V1Columns, 1, 22) \o <<<<"ci", "double">>>> \o
                        <<V1Columns[23]>> \o AddedColumns

\* The token at position p of a line's tokens does not parse for the
\* column there.
FailsAt(type, tokens, p) ==
    /\ Columns(type)[p][2] \in NumericTypes
    /\ ~StartsNumber(Columns(type)[p][2], tokens[p])

\* The line of the tokens with tok in the place of the one at position p.
ReplaceToken(tokens, p, tok) ==
    Join([i \in 1..Len(tokens) |-> IF i = p THEN tok ELSE tokens[i]], COMMA)

\* What a column of the given kind makes of a token that stands alone.
FieldOf(kind, token) ==
    IF kind = "text" THEN Some(token)
    ELSE TryParse(kind, StringView(token, 1, Len(token)))

\* Two records hold the same in every column but the one at position p.
AgreeBut(type, p, rec, other) ==
    \A q \in (1..s_ElementCount(type)) \ {p} :
        rec[Columns(type)[q][1]] = other[Columns(type)[q][1]]

\* rec is the record of a line of these tokens as the claim has it.
OneFieldEmptied(type, tokens, rec) ==
    /\ \A q \in 1..s_ElementCount(type) :
          rec[Columns(type)[q][1]] = FieldOf(Columns(type)[q][2], tokens[q])
    /\ \A p \in 1..s_ElementCount(type) : FailsAt(type, tokens, p) =>
          /\ rec[Columns(type)[p][1]] = nullopt
          /\ AgreeBut(type, p, rec,
                      Deserialise(type, ReplaceToken(tokens, p, <<"4", "2">>)))

C11_FailingTokenEmptiesOneField ==
    (pc = "done" /\ OneRowFile /\ ~IsShort(T, TheRow)) =>
        /\ error = "none"
        /\ Len(returned) = 1
        /\ OneFieldEmptied(T, TokensOf(TheRow), returned[1])

\* The V1 line of 23 tokens whose 3rd token is "abc": one record, gaia
\* empty, its neighbours tyc and hyg holding their own tokens.
C11_Witness ==
    /\ pc = "done"
    /\ T = "V1"
    /\ OneRowFile
    /\ Len(TokensOf(TheRow)) = 23
    /\ TokensOf(TheRow)[3] = <<"a", "b", "c">>
    /\ error = "none"
    /\ Len(returned) = 1
    /\ returned[1].gaia = nullopt
    /\ returned[1].tyc = Some(<<"2">>)
    /\ returned[1].hyg = Some(4)

(***************************************************************************)
(* C12.  Load never skips an empty line.  An empty line after the header,  *)
(* between rows or as one more line at the end of the file, splits into a  *)
(* single empty token, so Load throws the element-count error and returns  *)
(* no record.  One line terminator after the last data row makes no line:  *)
(* the file gives one record per row and no error.                         *)
(***************************************************************************)
\* The text has an empty line after its first line.
HasEmptyDataLine(text) ==
    \E k \in 1..Len(DataLines(text)) : DataLines(text)[k] = <<>>

\* The text ends with exactly one line terminator, behind a last line that
\* is not empty.
EndsWithOneTerminator(text) ==
    /\ Len(text) >= 2
    /\ text[Len(text)] = LF
    /\ text[Len(text) - 1] # LF

\* What an empty line splits into: one token, of no characters.
EmptyLineTokens ==
    Split(StringView(<<>>, 1, 0), COMMA, s_ElementCount(T)).elems

C12_EmptyLinesAreNeverSkipped ==
    (pc = "done" /\ paths = <<"file">>) =>
        /\ Len(EmptyLineTokens) = 1
        /\ EmptyLineTokens[1].size = 0
        /\ HasEmptyDataLine(opened[1]) =>
              /\ error = ErrElements
              /\ returned = <<>>
        /\ (EndsWithOneTerminator(opened[1]) /\ ~HasEmptyDataLine(opened[1])
                /\ NoShortLineIn(opened[1])) =>
              /\ error = "none"
              /\ Len(returned) = Occurrences(opened[1], LF) - 1
              /\ returned = RecordsOf(T, DataLines(opened[1]))

\* An empty line between two valid rows: the load stops at it with the
\* error, the second row unread.
C12_Witness ==
    /\ pc = "done"
    /\ paths = <<"file">>
    /\ opened = <<FileText(<<Header, RowA(T), <<>>, RowA(T)>>, FALSE)>>
    /\ error = ErrElements
    /\ returned = <<>>
    /\ csv = RowA(T)

====
